---- MODULE Spec2Model ----
(***************************************************************************)
(* git-branchstat (src/main.rs): one-line status summary of the git        *)
(* repository in the current directory.                                    *)
(*                                                                         *)
(* Text is modelled as a sequence of characters (one-character strings),   *)
(* so that trimming, splitting, substring search, padding and joining are  *)
(* computed as the Rust code computes them.  The two non-ASCII characters  *)
(* of the source are written by code point: "U+00C2" and "U+00B1".         *)
(***************************************************************************)
EXTENDS Integers, Sequences, FiniteSets, TLC

VARIABLES
    pc,        \* position of main: which call is next or in progress
    args,      \* std::env::args().skip(1)
    cwd,       \* the canonical current directory, as its path components
    stdout,    \* the lines printed so far
    exitCode,  \* process exit code, NoCode while running
    panic,     \* which unwrap/expect aborted the process, "none" otherwise
    spawned,   \* the git invocations spawned so far, in order
    running,   \* the git invocations in progress
    last,      \* how the most recent git invocation ended
    out,       \* the Vec<String> of the most recent command_output
    sig,       \* the elements of branchstat's vec! evaluated so far
    abDone,    \* ahead_behind's par_iter: indices in completion order
    bsDone,    \* branchstat's par_iter: indices in completion order
    ret        \* branchstat's return value

vars == <<pc, args, cwd, stdout, exitCode, panic, spawned, running, last,
          out, sig, abDone, bsDone, ret>>

-----------------------------------------------------------------------------
(* Bounds of the model *)

\* most lines git for-each-ref prints (local branches)
MaxLines == 2
\* most staged files
MaxStaged == 2
\* most untracked files
MaxUntracked == 2

-----------------------------------------------------------------------------
(* Program constants *)

\* format!("{:20} | {}", ...)
Width == 20
\* Some(128) => false
NotARepoCode == 128
\* a panicking Rust process exits with 101
PanicCode == 101

\* status.code() is None: the probe was killed by a signal
KilledBySignal == -1
\* no exit code yet
NoCode == -2

VERSION == <<"0", ".", "1", ".", "0">>
ProgramName ==
    <<"g", "i", "t", "-", "b", "r", "a", "n", "c", "h", "s", "t", "a", "t">>
NotARepoLine ==
    <<"N", "o", "t", " ", "a", " ", "g", "i", "t", " ", "r", "e", "p", "o", ".">>
versionArg == <<"v", "e", "r", "s", "i", "o", "n">>

-----------------------------------------------------------------------------
(* Text helpers: what the std library calls of the source compute *)

Max(a, b) == IF a >= b THEN a ELSE b

RECURSIVE Flatten(_)
\* the concatenation of a sequence of sequences, in index order
Flatten(ss) ==
    IF ss = <<>> THEN <<>> ELSE Head(ss) \o Flatten(Tail(ss))

RECURSIVE TrimStartBy(_, _)
\* drop the leading characters that are in the set cs
TrimStartBy(s, cs) ==
    IF s # <<>> /\ Head(s) \in cs THEN TrimStartBy(Tail(s), cs) ELSE s

RECURSIVE TrimEndBy(_, _)
TrimEndBy(s, cs) ==
    IF s # <<>> /\ s[Len(s)] \in cs
    THEN TrimEndBy(SubSeq(s, 1, Len(s) - 1), cs)
    ELSE s

\* char::is_whitespace, on the characters the model uses
Whitespace == {" ", "\t", "\n", "\r"}

\* str::trim_matches('\'')
trim_matches(s, c) == TrimEndBy(TrimStartBy(s, {c}), {c})
\* str::trim
trim(s) == TrimEndBy(TrimStartBy(s, Whitespace), Whitespace)
\* str::trim_start
trim_start(s) == TrimStartBy(s, Whitespace)

RECURSIVE SplitFrom(_, _, _)
\* str::split(c): the pieces between occurrences of c, empty pieces kept
SplitFrom(s, c, cur) ==
    IF s = <<>> THEN <<cur>>
    ELSE IF Head(s) = c THEN <<cur>> \o SplitFrom(Tail(s), c, <<>>)
    ELSE SplitFrom(Tail(s), c, Append(cur, Head(s)))

split(s, c) == SplitFrom(s, c, <<>>)

\* str::contains(pat)
contains(s, pat) ==
    \E i \in 1..(Len(s) - Len(pat) + 1) : SubSeq(s, i, i + Len(pat) - 1) = pat

RECURSIVE join(_, _)
\* [T]::join(sep)
join(ss, sep) ==
    IF ss = <<>> THEN <<>>
    ELSE IF Len(ss) = 1 THEN Head(ss)
    ELSE Head(ss) \o sep \o join(Tail(ss), sep)

Digit(d) == <<"0", "1", "2", "3", "4", "5", "6", "7", "8", "9">>[d + 1]

RECURSIVE Display(_)
\* "{}" of a usize: its decimal digits
Display(n) ==
    IF n < 10 THEN <<Digit(n)>> ELSE Display(n \div 10) \o <<Digit(n % 10)>>

\* "{:20}" of a string: padded with spaces on the right up to the width,
\* left as it is when it is already that long or longer
PadLeftAligned(s, w) == s \o [i \in 1..Max(0, w - Len(s)) |-> " "]

\* Option<String>
None == [some |-> FALSE, v |-> <<>>]
Some(s) == [some |-> TRUE, v |-> s]

\* Result<Option<String>>, and NoRet before branchstat returns
NoRet == [tag |-> "none", v |-> <<>>]
Err(kind) == [tag |-> kind, v |-> <<>>]
OkNone == [tag |-> "ok_none", v |-> <<>>]
OkSome(s) == [tag |-> "ok_some", v |-> s]
IsErr(r) == r.tag \in {"err_io", "err_utf8"}

-----------------------------------------------------------------------------
(* The environment: arguments, directories, and what git can print *)

Args == {<<>>, <<versionArg>>, <<versionArg, <<"x">>>>, <<<<"x">>, versionArg>>}

ShortName == <<"r", "e", "p", "o">>
\* a name of exactly Width characters
WideName ==
    <<"a", "b", "c", "d", "e", "f", "g", "h", "i", "j",
      "k", "l", "m", "n", "o", "p", "q", "r", "s", "t">>
\* a name longer than Width
LongName == WideName \o <<"u">>

\* canonical directories: the root (no file name), a name at depth 1 and
\* two names at depth 2
Paths == {<<>>, <<ShortName>>, <<LongName, WideName>>, <<ShortName, LongName>>}

\* lines of: git for-each-ref --format='%(refname:short) %(upstream:track)'
\* (the quotes are part of the argument, so git prints them): two branches
\* with tracking information, branches without it (the line ends with a
\* space or a tab inside the quotes), a line of quotes and space only, and
\* an empty line
RefLines ==
    { <<"'", "m", " ", "[", "g", "o", "n", "e", "]", "'">>,
      <<"'", "d", " ", "[", "a", "h", "e", "a", "d", " ", "1", "]", "'">>,
      <<"'", "m", " ", "'">>,
      <<"'", "t", "\t", "'">>,
      <<"'", " ", "'">>,
      <<>> }

RECURSIVE SeqsUpTo(_, _)
\* the sequences over S of length at most n
SeqsUpTo(S, n) ==
    IF n = 0 THEN {<<>>}
    ELSE LET shorter == SeqsUpTo(S, n - 1)
         IN  shorter \cup {Append(s, x) : s \in shorter, x \in S}

RefOutputs == SeqsUpTo(RefLines, MaxLines)

\* output of: git diff --shortstat
ShortstatOutputs ==
    { <<>>,
      << <<"1", " ", "f", "i", "l", "e", " ", "c", "h", "a", "n", "g", "e",
           "d", ",", " ", "3", " ", "i", "n", "s", "e", "r", "t", "i", "o",
           "n", "s", "(", "+", ")">> >>,
      << <<" ", "1", "2", " ", "f", "i", "l", "e", "s", " ", "c", "h", "a",
           "n", "g", "e", "d", ",", " ", "1", " ", "d", "e", "l", "e", "t",
           "i", "o", "n", "(", "-", ")">> >> }

StatFileLine == <<" ", "f", " ", "|", " ", "1", " ", "+">>
StatSummaryLine ==
    <<" ", "1", " ", "f", "i", "l", "e", " ", "c", "h", "a", "n", "g", "e",
      "d", ",", " ", "1", " ", "i", "n", "s", "e", "r", "t", "i", "o", "n",
      "(", "+", ")">>

\* output of: git diff --stat --cached, with k files staged: nothing for
\* none, otherwise one line per file followed by the summary line
StatOutput(k) ==
    IF k = 0 THEN <<>>
    ELSE [i \in 1..(k + 1) |-> IF i <= k THEN StatFileLine ELSE StatSummaryLine]

StagedFiles(lines) ==
    Cardinality({i \in 1..Len(lines) : lines[i] = StatFileLine})

\* output of: git ls-files --others --exclude-standard, one line per file
UntrackedOutput(k) == [i \in 1..k |-> <<"u">>]

\* exit statuses of a git query; command_output never looks at it
QueryCodes == {0, 1}
\* status.code() of the probe
ProbeCodes == {0, 1, NotARepoCode, NotARepoCode + 1, KilledBySignal}

-----------------------------------------------------------------------------
(* The pure parts of the source *)

\* mutant of IsVersion: `version` accepted only as the sole argument
IsVersion_OnlyArg(a) == Len(a) = 1 /\ a[1] = versionArg

\* main: args.len() > 0 && args[0] == "version"
IsVersion(a) == Len(a) > 0 /\ a[1] = versionArg

\* mutant of is_git_repo_code: every non-zero exit code means "not a repo"
is_git_repo_code_ZeroOnly(code) == code = 0

\* is_git_repo: match status.code() { Some(128) => false, _ => true }
is_git_repo_code(code) == code # NotARepoCode

\* mutant of ParCollect: the survivors in the order the workers finished
ParCollect_CompletionOrder(items, order) ==
    Flatten([k \in 1..Len(order) |-> items[order[k]]])

\* rayon: filter and map run on the items in any order; collect gives the
\* surviving items in the order of the collection, whatever the completion
\* order.  items[i] is <<>> when item i was filtered out, <<x>> otherwise.
ParCollect(items, order) == Flatten(items)

\* ahead_behind: .map(|x| x.trim_matches('\'').trim())
ahead_behind_map(x) == trim(trim_matches(x, "'"))

\* mutant of ahead_behind_filter: get(0) instead of get(1)
ahead_behind_filter_First(x) == Len(split(x, " ")) >= 1

\* ahead_behind: .filter(|x| x.split(' ').collect::<Vec<_>>().get(1).is_some())
ahead_behind_filter(x) == Len(split(x, " ")) >= 2

\* ahead_behind, after command_output: the String collected from the
\* parallel iterator, then the is_empty test
ahead_behind(lines, order) ==
    LET items == [i \in 1..Len(lines) |->
                    LET x == ahead_behind_map(lines[i])
                    IN  IF ahead_behind_filter(x) THEN <<x>> ELSE <<>>]
        response == Flatten(ParCollect(items, order))
    IN  IF response # <<>> THEN Some(response) ELSE None

\* format!("{}Â±", num): the literal of the source is the two characters
\* U+00C2 U+00B1
modified_suffix == <<"U+00C2", "U+00B1">>

\* modified, after command_output
modified(lines) ==
    LET text == join(lines, <<"\n">>)
    IN  IF contains(text, <<"c", "h", "a", "n", "g", "e", "d">>)
        THEN Some(split(trim_start(text), " ")[1] \o modified_suffix)
        ELSE None

\* status, after command_output
status(lines) ==
    IF lines # <<>>
    THEN Some(<<"S", "t", "a", "g", "e", "d", " ">> \o Display(Len(lines)))
    ELSE None

\* untracked, after command_output
untracked(lines) ==
    IF lines # <<>> THEN Some(Display(Len(lines)) \o <<"?">>) ELSE None

\* mutant of file_name: the first component instead of the last
file_name_First(p) == p[1]

\* Path::file_name of a canonical path: its last component
file_name(p) == p[Len(p)]

\* branchstat: format!("{:20} | {}", name, outputs)
format_line(name, outputs) ==
    PadLeftAligned(name, Width) \o <<" ", "|", " ">> \o outputs

\* branchstat: the joined survivors of the parallel filter/map
branchstat_outputs(v, order) ==
    LET items == [i \in 1..Len(v) |-> IF v[i].some THEN <<v[i].v>> ELSE <<>>]
    IN  join(ParCollect(items, order), <<",", " ">>)

\* mutant of branchstat_result: the is_empty test is lost
branchstat_result_NoEmptyTest(p, outputs) ==
    IF outputs = <<>> THEN OkSome(outputs)
    ELSE OkSome(format_line(file_name(p), outputs))

\* branchstat: if outputs.is_empty() { Ok(None) } else { Ok(Some(out)) }
branchstat_result(p, outputs) ==
    IF outputs = <<>> THEN OkNone ELSE OkSome(format_line(file_name(p), outputs))

-----------------------------------------------------------------------------
(* The program *)

\* the four extractors, in the order of branchstat's vec!
Extractors == <<"ahead_behind", "modified", "status", "untracked">>

\* the git command each one runs through command_output
Cmd(e) ==
    CASE e = "ahead_behind" -> "for-each-ref"
      [] e = "modified"     -> "diff --shortstat"
      [] e = "status"       -> "diff --stat --cached"
      [] e = "untracked"    -> "ls-files --others"

ProbeCmd == "branch"

Range(s) == {s[i] : i \in 1..Len(s)}

Exited(code) == [st |-> "exited", code |-> code]
Failed(kind) == [st |-> kind, code |-> NoCode]

Init ==
    /\ pc = "main"
    /\ args \in Args
    /\ cwd \in Paths
    /\ stdout = <<>>
    /\ exitCode = NoCode
    /\ panic = "none"
    /\ spawned = <<>>
    /\ running = {}
    /\ last = [st |-> "none", code |-> NoCode]
    /\ out = <<>>
    /\ sig = <<>>
    /\ abDone = <<>>
    /\ bsDone = <<>>
    /\ ret = NoRet

\* an unwrap or expect that fails: the process aborts with the panic code
Abort(what) ==
    /\ panic' = what
    /\ exitCode' = PanicCode
    /\ pc' = "exited"

\* main, `version` given: print the name and version, exit(0)
main_version ==
    /\ pc = "main"
    /\ IsVersion(args)
    /\ stdout' = Append(stdout, ProgramName \o <<" ">> \o VERSION)
    /\ exitCode' = 0
    /\ pc' = "exited"
    /\ UNCHANGED <<args, cwd, panic, spawned, running, last, out, sig,
                   abDone, bsDone, ret>>

\* main: PathBuf::from(".").canonicalize().unwrap()
main_canonicalize ==
    /\ pc = "main"
    /\ ~IsVersion(args)
    /\ \E ok \in BOOLEAN :
         IF ok
         THEN pc' = "is_git_repo" /\ UNCHANGED <<panic, exitCode>>
         ELSE Abort("canonicalize")
    /\ UNCHANGED <<args, cwd, stdout, spawned, running, last, out, sig,
                   abDone, bsDone, ret>>

\* is_git_repo: Command::new("git").arg("branch")...status().expect(..),
\* the spawn
is_git_repo_spawn ==
    /\ pc = "is_git_repo"
    /\ ProbeCmd \notin running
    /\ \E ok \in BOOLEAN :
         IF ok
         THEN /\ spawned' = Append(spawned, ProbeCmd)
              /\ running' = running \cup {ProbeCmd}
              /\ UNCHANGED <<pc, panic, exitCode, last>>
         ELSE /\ Abort("is_git_repo")
              /\ last' = Failed("err_io")
              /\ UNCHANGED <<spawned, running>>
    /\ UNCHANGED <<args, cwd, stdout, out, sig, abDone, bsDone, ret>>

\* is_git_repo: the probe exits; main prints the diagnostic and exits with 1
\* when is_git_repo is false, and calls branchstat otherwise
is_git_repo_exit ==
    /\ pc = "is_git_repo"
    /\ ProbeCmd \in running
    /\ \E code \in ProbeCodes :
         /\ last' = Exited(code)
         /\ running' = running \ {ProbeCmd}
         /\ IF is_git_repo_code(code)
            THEN pc' = "ahead_behind" /\ UNCHANGED <<stdout, exitCode>>
            ELSE /\ stdout' = Append(stdout, NotARepoLine)
                 /\ exitCode' = 1
                 /\ pc' = "exited"
    /\ UNCHANGED <<args, cwd, panic, spawned, out, sig, abDone, bsDone, ret>>

\* command_output called by extractor e: Command::new("git")...output()
\* spawns git; a spawn failure is returned with `?` through the extractor and
\* through branchstat.  The elements of vec![ahead_behind(p)?, modified(p)?,
\* status(p)?, untracked(p)?] are evaluated one after the other, each call
\* blocking in output() until its git process has exited.
command_output_spawn(e) ==
    /\ pc = e
    /\ running = {}
    /\ \E ok \in BOOLEAN :
         IF ok
         THEN /\ spawned' = Append(spawned, Cmd(e))
              /\ running' = running \cup {Cmd(e)}
              /\ UNCHANGED <<pc, last, ret>>
         ELSE /\ last' = Failed("err_io")
              /\ ret' = Err("err_io")
              /\ pc' = "returned"
              /\ UNCHANGED <<spawned, running>>
    /\ UNCHANGED <<args, cwd, stdout, exitCode, panic, out, sig, abDone,
                   bsDone>>

\* command_output: reading the output fails (io::Error) or the output is not
\* UTF-8 (Utf8Error); the error is returned with `?`
command_output_fail(e) ==
    /\ pc = e
    /\ Cmd(e) \in running
    /\ \E kind \in {"err_io", "err_utf8"} :
         /\ last' = Failed(kind)
         /\ ret' = Err(kind)
    /\ running' = running \ {Cmd(e)}
    /\ pc' = "returned"
    /\ UNCHANGED <<args, cwd, stdout, exitCode, panic, spawned, out, sig,
                   abDone, bsDone>>

\* ahead_behind: command_output returns the lines; the parallel iterator
\* over them starts
ahead_behind_exit ==
    /\ pc = "ahead_behind"
    /\ Cmd("ahead_behind") \in running
    /\ \E lines \in RefOutputs, code \in QueryCodes :
         /\ out' = lines
         /\ last' = Exited(code)
    /\ running' = running \ {Cmd("ahead_behind")}
    /\ abDone' = <<>>
    /\ pc' = "ahead_behind_par"
    /\ UNCHANGED <<args, cwd, stdout, exitCode, panic, spawned, sig, bsDone,
                   ret>>

\* ahead_behind: a rayon worker maps and filters one more line
ahead_behind_worker ==
    /\ pc = "ahead_behind_par"
    /\ \E i \in (1..Len(out)) \ Range(abDone) : abDone' = Append(abDone, i)
    /\ UNCHANGED <<pc, args, cwd, stdout, exitCode, panic, spawned, running,
                   last, out, sig, bsDone, ret>>

\* ahead_behind: collect, the is_empty test, and the return into the vec!
ahead_behind_return ==
    /\ pc = "ahead_behind_par"
    /\ Len(abDone) = Len(out)
    /\ sig' = Append(sig, ahead_behind(out, abDone))
    /\ pc' = "modified"
    /\ UNCHANGED <<args, cwd, stdout, exitCode, panic, spawned, running,
                   last, out, abDone, bsDone, ret>>

\* modified: command_output returns, the function computes its signal
modified_exit ==
    /\ pc = "modified"
    /\ Cmd("modified") \in running
    /\ \E lines \in ShortstatOutputs, code \in QueryCodes :
         /\ out' = lines
         /\ last' = Exited(code)
         /\ sig' = Append(sig, modified(lines))
    /\ running' = running \ {Cmd("modified")}
    /\ abDone' = <<>>
    /\ pc' = "status"
    /\ UNCHANGED <<args, cwd, stdout, exitCode, panic, spawned, bsDone,
                   ret>>

\* status: command_output returns, the function computes its signal
status_exit ==
    /\ pc = "status"
    /\ Cmd("status") \in running
    /\ \E k \in 0..MaxStaged, code \in QueryCodes :
         /\ out' = StatOutput(k)
         /\ last' = Exited(code)
         /\ sig' = Append(sig, status(StatOutput(k)))
    /\ running' = running \ {Cmd("status")}
    /\ pc' = "untracked"
    /\ UNCHANGED <<args, cwd, stdout, exitCode, panic, spawned, abDone,
                   bsDone, ret>>

\* untracked: command_output returns, the function computes its signal; the
\* vec! is complete and branchstat's parallel iterator over it starts
untracked_exit ==
    /\ pc = "untracked"
    /\ Cmd("untracked") \in running
    /\ \E k \in 0..MaxUntracked, code \in QueryCodes :
         /\ out' = UntrackedOutput(k)
         /\ last' = Exited(code)
         /\ sig' = Append(sig, untracked(UntrackedOutput(k)))
    /\ running' = running \ {Cmd("untracked")}
    /\ bsDone' = <<>>
    /\ pc' = "branchstat_par"
    /\ UNCHANGED <<args, cwd, stdout, exitCode, panic, spawned, abDone,
                   ret>>

\* branchstat: a rayon worker filters and maps one more element of the vec
branchstat_worker ==
    /\ pc = "branchstat_par"
    /\ \E i \in (1..Len(sig)) \ Range(bsDone) : bsDone' = Append(bsDone, i)
    /\ UNCHANGED <<pc, args, cwd, stdout, exitCode, panic, spawned, running,
                   last, out, sig, abDone, ret>>

\* branchstat: collect, join, the is_empty test and the format!;
\* p.file_name().unwrap() panics for the root directory
branchstat_return ==
    /\ pc = "branchstat_par"
    /\ Len(bsDone) = Len(sig)
    /\ LET outputs == branchstat_outputs(sig, bsDone)
       IN  IF outputs # <<>> /\ cwd = <<>>
           THEN Abort("file_name") /\ UNCHANGED ret
           ELSE /\ ret' = branchstat_result(cwd, outputs)
                /\ pc' = "returned"
                /\ UNCHANGED <<panic, exitCode>>
    /\ UNCHANGED <<args, cwd, stdout, spawned, running, last, out, sig,
                   abDone, bsDone>>

\* mutant of main_print: an error of branchstat is reported and exits with 1
main_print_ReportError ==
    /\ pc = "returned"
    /\ stdout' = IF ret.tag = "ok_some" THEN Append(stdout, ret.v)
                 ELSE IF IsErr(ret) THEN Append(stdout, <<"e", "r", "r">>)
                 ELSE stdout
    /\ exitCode' = IF IsErr(ret) THEN 1 ELSE 0
    /\ pc' = "exited"
    /\ UNCHANGED <<args, cwd, panic, spawned, running, last, out, sig,
                   abDone, bsDone, ret>>

\* main: if let Ok(Some(status)) = stat { println!(..) }, then main returns
main_print ==
    /\ pc = "returned"
    /\ stdout' = IF ret.tag = "ok_some" THEN Append(stdout, ret.v) ELSE stdout
    /\ exitCode' = 0
    /\ pc' = "exited"
    /\ UNCHANGED <<args, cwd, panic, spawned, running, last, out, sig,
                   abDone, bsDone, ret>>

Next ==
    \/ main_version
    \/ main_canonicalize
    \/ is_git_repo_spawn
    \/ is_git_repo_exit
    \/ \E e \in Range(Extractors) : command_output_spawn(e)
    \/ \E e \in Range(Extractors) : command_output_fail(e)
    \/ ahead_behind_exit
    \/ ahead_behind_worker
    \/ ahead_behind_return
    \/ modified_exit
    \/ status_exit
    \/ untracked_exit
    \/ branchstat_worker
    \/ branchstat_return
    \/ main_print

Spec == Init /\ [][Next]_vars

-----------------------------------------------------------------------------
(* Properties *)

IsSuffix(suf, s) ==
    Len(suf) <= Len(s) /\ SubSeq(s, Len(s) - Len(suf) + 1, Len(s)) = suf

Separator == <<" ", "|", " ">>

RECURSIVE JoinPresent(_, _)
\* the present signals of v from index i on, in index order, with ", "
\* between them
JoinPresent(v, i) ==
    IF i > Len(v) THEN <<>>
    ELSE LET rest == JoinPresent(v, i + 1)
         IN  IF ~v[i].some THEN rest
             ELSE IF \A j \in (i + 1)..Len(v) : ~v[j].some THEN v[i].v
             ELSE v[i].v \o <<",", " ">> \o rest

AllDone == pc \in {"returned", "exited"} /\ Len(sig) = Len(Extractors)

\* the git invocations of the extractors spawned so far
ExtractorSpawns == {i \in 1..Len(spawned) : spawned[i] # ProbeCmd}

\* C1: whenever branchstat returns a status line, the line ends with the
\* present signals in the fixed order ahead/behind, modified, staged,
\* untracked, whatever the order in which the parallel workers finished.
C1_SignalOrder ==
    ret.tag = "ok_some" =>
        IsSuffix(Separator \o JoinPresent(sig, 1), ret.v)

\* C1 witness: a status line was returned with all four signals present
\* after the workers finished in the reverse order.
C1_Witness ==
    /\ ret.tag = "ok_some"
    /\ bsDone = <<4, 3, 2, 1>>
    /\ \A i \in 1..4 : sig[i].some

\* C2: with all four extractors None branchstat returns Ok(None); a returned
\* line is never empty and never a label without a signal.
C2_NothingToPrint ==
    /\ (AllDone /\ \A i \in 1..Len(sig) : ~sig[i].some) => ret = OkNone
    /\ ret.tag = "ok_some" =>
         /\ ret.v # <<>>
         /\ \E i \in 1..Len(sig) : sig[i].some /\ sig[i].v # <<>>
         /\ ~IsSuffix(Separator, ret.v)

\* C2 witness: all four extractors returned None and branchstat returned
\* Ok(None).
C2_Witness ==
    /\ AllDone
    /\ \A i \in 1..Len(sig) : ~sig[i].some
    /\ ret = OkNone
    /\ pc = "exited"

\* C3: without `version`, "Not a git repo." is printed and the exit code is 1
\* exactly when the probe exited with 128, and then no extractor query is
\* ever spawned; after any other exit code of the probe branchstat is called.
C3_RepoProbe ==
    LET probed == spawned # <<>> /\ spawned[1] = ProbeCmd
        probeExited == probed /\ Len(spawned) = 1 /\ last.st = "exited"
        rejected == probeExited /\ last.code = NotARepoCode
    IN  /\ (NotARepoLine \in Range(stdout)) <=> rejected
        /\ (exitCode = 1) <=> rejected
        /\ rejected => pc = "exited" /\ ExtractorSpawns = {} /\ running = {}
        /\ (probeExited /\ ~rejected) => pc = "ahead_behind" /\ exitCode = NoCode
        /\ ExtractorSpawns # {} => probed /\ ~(NotARepoLine \in Range(stdout))

\* C3 witness: the probe exited with 128 and the diagnostic was printed.
C3_Witness ==
    /\ pc = "exited"
    /\ last = Exited(NotARepoCode)
    /\ stdout = <<NotARepoLine>>
    /\ exitCode = 1

\* C4: when a query of an extractor fails (spawn failure, read error or
\* non-UTF-8 output) branchstat fails, nothing is printed and the process
\* ends with exit code 0; a query that merely exits non-zero is no failure.
C4_ErrorsDiscarded ==
    LET queryFailed == last.st \in {"err_io", "err_utf8"} /\ panic = "none"
    IN  /\ queryFailed =>
             /\ IsErr(ret)
             /\ ret.tag = last.st
             /\ pc \in {"returned", "exited"}
             /\ stdout = <<>>
             /\ pc = "exited" => exitCode = 0
        /\ IsErr(ret) => queryFailed
        /\ (last.st = "exited" /\ last.code # 0 /\ ExtractorSpawns # {}) =>
             ~IsErr(ret)

\* C4 witness: a query produced non-UTF-8 output and the process has ended.
C4_Witness ==
    /\ pc = "exited"
    /\ last.st = "err_utf8"
    /\ ret = Err("err_utf8")
    /\ exitCode = 0
    /\ stdout = <<>>

\* C5: with `version` as the first argument the program prints its name and
\* version, exits with 0, and spawns no git process at all.
C5_VersionOnly ==
    (args # <<>> /\ args[1] = versionArg) =>
        /\ spawned = <<>>
        /\ running = {}
        /\ pc \in {"main", "exited"}
        /\ pc = "exited" =>
             /\ stdout = <<ProgramName \o <<" ">> \o VERSION>>
             /\ exitCode = 0

\* C5 witness: `version` followed by another argument, after the exit.
C5_Witness ==
    /\ Len(args) = 2
    /\ args[1] = versionArg
    /\ pc = "exited"
    /\ exitCode = 0

\* the name padded with spaces to the width, or cut to it
PadOrTruncate(s, w) ==
    [i \in 1..w |-> IF i <= Len(s) THEN s[i] ELSE " "]

\* C6 as stated: the label is the final component's name padded or truncated
\* to 20 characters, so the separator always begins at column 21.
C6_FixedWidthLabel ==
    ret.tag = "ok_some" =>
        LET name == cwd[Len(cwd)]
        IN  ret.v = PadOrTruncate(name, Width) \o Separator
                        \o JoinPresent(sig, 1)

\* C6 amended: the label is the final component's name, padded with spaces
\* on the right to at least 20 characters and never truncated; the separator
\* begins at column 21 for names of at most 20 characters and right after
\* the name for longer ones; the present signals follow, joined with ", ".
C6_PaddedLabel ==
    ret.tag = "ok_some" =>
        LET name == cwd[Len(cwd)]
            pad == [i \in 1..(Width - Len(name)) |-> " "]
            col == IF Len(name) <= Width THEN Width + 1 ELSE Len(name) + 1
        IN  /\ ret.v = name \o pad \o Separator \o JoinPresent(sig, 1)
            /\ SubSeq(ret.v, col, col + 2) = Separator

\* C6 witness: a status line for a directory at depth 2 whose name is longer
\* than the width.
C6_Witness ==
    /\ ret.tag = "ok_some"
    /\ Len(cwd) = 2
    /\ Len(cwd[Len(cwd)]) > Width

\* str::split_whitespace().next(): the first whitespace-separated token
FirstWhitespaceToken(s) ==
    LET t == TrimStartBy(s, Whitespace)
        ends == {i \in 1..Len(t) : t[i] \in Whitespace}
    IN  IF ends = {} THEN t
        ELSE SubSeq(t, 1, (CHOOSE i \in ends : \A j \in ends : i <= j) - 1)

\* modified has just returned: out is still the shortstat output
AfterModified == pc = "status" /\ running = {} /\ Len(sig) = 2

\* C7: the Modified extractor returns Some("<count>" followed by the
\* plus-minus sign U+00B1), <count> being the first whitespace-separated token
\* of the shortstat output, when the output contains "changed", and None
\* otherwise.
C7_ModifiedSignal ==
    AfterModified =>
        LET text == join(out, <<"\n">>)
        IN  sig[2] = IF contains(text, <<"c", "h", "a", "n", "g", "e", "d">>)
                     THEN Some(FirstWhitespaceToken(text) \o <<"U+00B1">>)
                     ELSE None

\* status has just returned: out is still the cached diff stat
AfterStatus == pc = "untracked" /\ Len(sig) = 3

\* C8: with exactly one staged file (one per-file line and the summary line
\* in the cached diff stat) the Staged extractor returns Some("Staged 1").
C8_OneStagedFile ==
    (AfterStatus /\ StagedFiles(out) = 1) =>
        sig[3] = Some(<<"S", "t", "a", "g", "e", "d", " ", "1">>)

\* C9: the extractors run concurrently: while the query of an extractor is
\* in progress the query of the next extractor can be spawned.
C9_ConcurrentExtractors ==
    \A i \in 1..(Len(Extractors) - 1) :
        Cmd(Extractors[i]) \in running =>
            ENABLED command_output_spawn(Extractors[i + 1])

\* ahead_behind has just returned: out is still the for-each-ref output
AfterAheadBehind == pc = "modified" /\ Len(sig) = 1

\* a line after stripping the surrounding quotes, then the whitespace
Stripped(l) == trim(trim_matches(l, "'"))

\* the stripped line has a second space-separated token
HasSecondToken(x) == \E i \in 1..Len(x) : x[i] = " "

\* C10: ahead_behind returns None exactly when no stripped line has a second
\* space-separated token, and otherwise Some of the stripped qualifying
\* lines fused in their output order, whatever the workers' order.
C10_AheadBehind ==
    AfterAheadBehind =>
        LET stripped == [i \in 1..Len(out) |-> Stripped(out[i])]
            qualifying == SelectSeq(stripped, HasSecondToken)
        IN  /\ sig[1].some <=> qualifying # <<>>
            /\ sig[1].v = Flatten(qualifying)

\* C10 witness: two different qualifying lines, mapped in reverse order,
\* and returned.
C10_Witness ==
    /\ AfterAheadBehind
    /\ abDone = <<2, 1>>
    /\ out[1] # out[2]
    /\ HasSecondToken(Stripped(out[1]))
    /\ HasSecondToken(Stripped(out[2]))
    /\ sig[1].some

====
